---- MODULE Spec2Model ----
(***************************************************************************)
(* DPLL satisfiability search of src/src/dpll.py: the indexed engine       *)
(* (class DPLL, driven by main.py) and the flat engine (class DPLL2).      *)
(*                                                                         *)
(* Python values are modelled as follows.                                  *)
(*   - a set of literals (a clause) is a TLA+ set of non-zero integers;    *)
(*   - a dict is a function whose DOMAIN is the dict's key set;            *)
(*   - Optional[x] is a sequence of length at most one: None is << >>;     *)
(*   - the recursion of run_dpll is an explicit stack of call frames.      *)
(* The iteration order of a Python set is not fixed by the language, so    *)
(* every `for x in <set>` / next(iter(<set>)) whose first element decides  *)
(* the outcome is a nondeterministic choice over the set.  The iteration   *)
(* order of a dict is its insertion order and is modelled as such.         *)
(***************************************************************************)
EXTENDS Integers, Sequences, FiniteSets, TLC

\* Bounds of the explored inputs: declared variables 1..NumVars (at least the
\* two variables of the scenarios), and at most MaxClauses clauses in a
\* formula that is not one of the scenario shapes.
NumVars == 2
MaxClauses == 2

VARIABLES
    clauses,    \* instance.clauses: the formula, a sequence of clauses
    phase,      \* which call of the driver is running: "dpll", "dpll2", "done"
    stack,      \* call frames of DPLL.run_dpll, innermost last
    retval,     \* value returned by the last finished DPLL.run_dpll call
    solution,   \* DPLL.solution
    stack2,     \* call frames of DPLL2.run_dpll, innermost last
    result      \* value returned by the last finished DPLL2.run_dpll call

vars == <<clauses, phase, stack, retval, solution, stack2, result>>

----------------------------------------------------------------------------
\* Python helpers

None == << >>
Some(x) == <<x>>
Val(o) == o[1]

\* instance.vars: the declared variables
InstanceVars == 1..NumVars

Lits == {l \in (0 - NumVars)..NumVars : l # 0}

abs(l) == IF l < 0 THEN 0 - l ELSE l

\* dict.get with the default of a defaultdict(set)
Get(d, k) == IF k \in DOMAIN d THEN d[k] ELSE {}

\* the dict d with key k set to v (d[k] = v)
Put(d, k, v) == [x \in DOMAIN d \cup {k} |-> IF x = k THEN v ELSE d[x]]

\* smallest element of a non-empty set of integers
Min(S) == CHOOSE x \in S : \A y \in S : x <= y

\* ids of the clauses of the formula, as enumerate() numbers them
ClauseIds == {i - 1 : i \in 1..Len(clauses)}

----------------------------------------------------------------------------
\* class DPLL

\* Node(id_to_clause, var_to_clause_ids, sat_vars_to_assignment,
\*      unit_clauses, pure_vars): a plain object with these five attributes,
\* in the order of the constructor call of line 36.  The engine never reads or
\* updates unit_clauses and pure_vars after __init__.
Node(i2c, v2c, a, u, p) ==
    [id_to_clause |-> i2c, var_to_clause_ids |-> v2c,
     sat_vars_to_assignment |-> a, unit_clauses |-> u, pure_vars |-> p]

\* DPLL.__init__: self.root
Root ==
    LET init_id_to_clause == [i \in ClauseIds |-> clauses[i + 1]]
        keys == UNION {clauses[i] : i \in 1..Len(clauses)}
        init_var_to_clause_ids ==
            [l \in keys |-> {i \in ClauseIds : l \in clauses[i + 1]}]
        init_unit_clauses ==
            {i \in ClauseIds : Cardinality(clauses[i + 1]) = 1}
        init_pure_vars ==
            {v \in InstanceVars : v \in keys /\ (0 - v) \notin keys}
            \cup {0 - v : v \in {w \in InstanceVars : w \notin keys}}
    IN Node(init_id_to_clause, init_var_to_clause_ids, << >>,
            init_unit_clauses, init_pure_vars)

\* Variant of Polarity: every variable is recorded as true.
Polarity_AlwaysTrue(lit) == TRUE

\* Variant of Polarity: the sign test reversed.
Polarity_Reversed(lit) == lit < 0

\* line 87: the value recorded for the variable of lit
Polarity(lit) == lit > 0

\* Variant of DiscardSatisfied: an entry that becomes empty is deleted.
DiscardSatisfied_Pruned(v2c, i2c, lit) ==
    LET sat == Get(v2c, lit)
        rest(l) == Get(v2c, l) \ {c \in sat : l \in Get(i2c, c)}
        keys == DOMAIN v2c \cup {lit} \cup UNION {Get(i2c, c) : c \in sat}
    IN [l \in {k \in keys : k = lit \/ rest(k) # {}} |->
          IF l = lit THEN sat ELSE rest(l)]

\* Variant of DiscardSatisfied: line 95 is left out, the ids of the deleted
\* clauses stay listed under their other literals.
DiscardSatisfied_Kept(v2c, i2c, lit) ==
    [l \in DOMAIN v2c \cup {lit} |-> Get(v2c, l)]

\* lines 91-95: var_to_clause_ids after the ids of the clauses that contain
\* lit were discarded from the entries of their other literals.  An entry
\* that becomes empty stays in the dict; reading a missing key of the
\* defaultdict inserts it.
DiscardSatisfied(v2c, i2c, lit) ==
    LET sat == Get(v2c, lit)
    IN [l \in DOMAIN v2c \cup {lit} \cup UNION {Get(i2c, c) : c \in sat} |->
          IF l = lit THEN sat
          ELSE Get(v2c, l) \ {c \in sat : l \in Get(i2c, c)}]

\* lines 100-101: the clauses with the ids `neg` lose the literal -lit
RemoveFalsified(i2c, neg, lit) ==
    [c \in DOMAIN i2c \cup neg |->
       IF c \in neg THEN Get(i2c, c) \ {0 - lit} ELSE i2c[c]]

\* Variant of HasEmptyClause: the emptied clause goes unnoticed.
HasEmptyClause_Never(i2c, ids) == FALSE

\* lines 102-103: one of the clauses `ids` has no literal left
HasEmptyClause(i2c, ids) == \E c \in ids : i2c[c] = {}

\* Variant of PopKeys: only the entry of lit is removed.
PopKeys_LitOnly(v2c, lit) == [l \in DOMAIN v2c \ {lit} |-> v2c[l]]

\* lines 106-107
PopKeys(v2c, lit) == [l \in DOMAIN v2c \ {lit, 0 - lit} |-> v2c[l]]

\* DPLL.update_node(node, lit): the value returned, Some(new_node), or None
\* when a clause becomes empty; NodeAfterUpdate is its effect on node.  (clause.remove(-lit) of line 101 raises
\* KeyError if the clause lacks -lit; UpdateNodeSafe states that the engine
\* never makes such a call.)
update_node(node, lit) ==
    LET var == abs(lit)
        val == Polarity(lit)
        assignment == Put(node.sat_vars_to_assignment, var, val)
        sat == Get(node.var_to_clause_ids, lit)
        v2c1 == DiscardSatisfied(node.var_to_clause_ids, node.id_to_clause, lit)
        i2c1 == [c \in DOMAIN node.id_to_clause \ sat |-> node.id_to_clause[c]]
        neg == Get(v2c1, 0 - lit)
        i2c2 == RemoveFalsified(i2c1, neg, lit)
    IN IF HasEmptyClause(i2c2, neg)
       THEN None
       ELSE Some(Node(i2c2, PopKeys(v2c1, lit), assignment,
                      node.unit_clauses, node.pure_vars))

\* Variant of NodeAfterUpdate: line 85 binds new_node to node itself, so the
\* object passed holds what lines 88-107 wrote (up to the return of line 103
\* when a clause became empty).
NodeAfterUpdate_Shared(node, lit) ==
    LET v2c1 == DiscardSatisfied(node.var_to_clause_ids, node.id_to_clause, lit)
        sat == Get(node.var_to_clause_ids, lit)
        i2c1 == [c \in DOMAIN node.id_to_clause \ sat |-> node.id_to_clause[c]]
    IN IF update_node(node, lit) # None
       THEN Val(update_node(node, lit))
       ELSE Node(RemoveFalsified(i2c1, Get(v2c1, 0 - lit), lit), v2c1,
                 Put(node.sat_vars_to_assignment, abs(lit), Polarity(lit)),
                 node.unit_clauses, node.pure_vars)

\* line 85: what the object passed as `node` holds once update_node(node, lit)
\* has returned.  new_node is a deep copy, it shares no dict and no set with
\* node, so the writes of lines 88-107 do not reach node.
NodeAfterUpdate(node, lit) == node

\* update_node(node, lit) raises no KeyError at line 101: every clause that
\* is listed under -lit after lines 91-96 is active and contains -lit
UpdateNodeSafe(node, lit) ==
    LET sat == Get(node.var_to_clause_ids, lit)
        v2c1 == DiscardSatisfied(node.var_to_clause_ids, node.id_to_clause, lit)
    IN \A c \in Get(v2c1, 0 - lit) :
          /\ c \in DOMAIN node.id_to_clause \ sat
          /\ (0 - lit) \in node.id_to_clause[c]

\* Variant of PureLits: the test of line 72 is dropped.
PureLits_All(node) ==
    UNION {node.id_to_clause[c] : c \in DOMAIN node.id_to_clause}

\* the literals find_pure_symbol may select: those whose negation is in no
\* active clause
PureLits(node) ==
    LET literals == UNION {node.id_to_clause[c] : c \in DOMAIN node.id_to_clause}
    IN {lit \in literals : (0 - lit) \notin literals}

\* DPLL.find_pure_symbol(node): the set of values the call may return (the
\* first pure literal in the iteration order of a set is any pure literal)
find_pure_symbol(node) ==
    IF PureLits(node) = {} THEN {None}
    ELSE {update_node(node, lit) : lit \in PureLits(node)}

\* the call find_pure_symbol(node) with its effect: `ret` is the value
\* returned and `node` is what the object passed holds afterwards
PureCall(node) ==
    IF PureLits(node) = {} THEN {[ret |-> None, node |-> node]}
    ELSE {[ret |-> update_node(node, lit),
           node |-> NodeAfterUpdate(node, lit)] : lit \in PureLits(node)}

\* ids of the active clauses with exactly one literal
UnitIds(node) ==
    {c \in DOMAIN node.id_to_clause : Cardinality(node.id_to_clause[c]) = 1}

\* DPLL.find_unit_clause(node): id_to_clause is iterated in insertion order,
\* which is the order of the ids
find_unit_clause(node) ==
    IF UnitIds(node) = {} THEN None
    ELSE LET clause == node.id_to_clause[Min(UnitIds(node))]
             var == CHOOSE l \in clause : TRUE
         IN update_node(node, var)

\* the call find_unit_clause(node) with its effect, as PureCall
UnitCall(node) ==
    IF UnitIds(node) = {} THEN [ret |-> None, node |-> node]
    ELSE LET clause == node.id_to_clause[Min(UnitIds(node))]
             var == CHOOSE l \in clause : TRUE
         IN [ret |-> update_node(node, var),
             node |-> NodeAfterUpdate(node, var)]

\* position at which __init__ inserted the key l into var_to_clause_ids: the
\* first clause that contains l (keys of one clause come in set order)
KeyRank(l) == Min({i \in ClauseIds : l \in clauses[i + 1]} \cup {Len(clauses)})

\* DPLL.heuristic(node): the first key of var_to_clause_ids; the set of the
\* keys that can be the first one
heuristic(node) ==
    LET keys == DOMAIN node.var_to_clause_ids
    IN {l \in keys : \A k \in keys : KeyRank(l) <= KeyRank(k)}

\* truth value of an Optional[Node] in `if next_node:` (a Node is an object
\* without __bool__ or __len__, hence truthy)
Truthy(o) == o # None

\* a call frame of run_dpll: its argument, where it stands, and branch_var
Frame(n, pc, lit) == [node |-> n, pc |-> pc, lit |-> lit]

Top == stack[Len(stack)]
Pop == SubSeq(stack, 1, Len(stack) - 1)

\* line 20: the root's id_to_clause holds the very set objects of
\* instance.clauses, so instance.clauses shows what the root object's active
\* clauses hold
InstanceClauses(root) ==
    [i \in 1..Len(clauses) |->
       IF (i - 1) \in DOMAIN root.id_to_clause
       THEN root.id_to_clause[i - 1] ELSE clauses[i]]

\* the frame calls run_dpll(arg); `node` is what its own node object holds
\* after the update_node calls that led to this call
Call(node, pc, lit, arg) ==
    /\ stack' = Append([stack EXCEPT ![Len(stack)] = Frame(Some(node), pc, lit)],
                       Frame(arg, "enter", 0))
    /\ clauses' = IF Len(stack) = 1 THEN InstanceClauses(node) ELSE clauses

Entering == phase = "dpll" /\ stack # << >> /\ Top.pc = "enter"

\* lines 42-43
RunDpll_NoneNode ==
    /\ Entering
    /\ Top.node = None
    /\ stack' = Pop
    /\ retval' = None
    /\ UNCHANGED <<clauses, phase, solution, stack2, result>>

\* lines 46-48
RunDpll_Solved ==
    /\ Entering
    /\ Top.node # None
    /\ DOMAIN Val(Top.node).var_to_clause_ids = {}
    /\ solution' = Some(Val(Top.node).sat_vars_to_assignment)
    /\ stack' = Pop
    /\ retval' = None
    /\ UNCHANGED <<clauses, phase, stack2, result>>

Inferring ==
    /\ Entering
    /\ Top.node # None
    /\ DOMAIN Val(Top.node).var_to_clause_ids # {}

\* lines 51-53
RunDpll_Pure ==
    /\ Inferring
    /\ \E pure \in PureCall(Val(Top.node)) :
         /\ Truthy(pure.ret)
         /\ Call(pure.node, "tail", 0, pure.ret)
    /\ UNCHANGED <<phase, retval, solution, stack2, result>>

\* lines 56-58
RunDpll_Unit ==
    /\ Inferring
    /\ \E pure \in PureCall(Val(Top.node)) :
         /\ ~Truthy(pure.ret)
         /\ LET unit == UnitCall(pure.node)
            IN /\ Truthy(unit.ret)
               /\ Call(unit.node, "tail", 0, unit.ret)
    /\ UNCHANGED <<phase, retval, solution, stack2, result>>

\* lines 62-64, left operand of `or`
RunDpll_Branch ==
    /\ Inferring
    /\ \E pure \in PureCall(Val(Top.node)) :
         /\ ~Truthy(pure.ret)
         /\ LET unit == UnitCall(pure.node)
            IN /\ ~Truthy(unit.ret)
               /\ \E branch_var \in heuristic(unit.node) :
                    Call(NodeAfterUpdate(unit.node, branch_var), "first",
                         branch_var, update_node(unit.node, branch_var))
    /\ UNCHANGED <<phase, retval, solution, stack2, result>>

\* line 64, `or`: the right operand is evaluated when the left one is falsy
RunDpll_Or ==
    /\ phase = "dpll" /\ stack # << >> /\ Top.pc = "first"
    /\ IF retval # None
       THEN stack' = Pop /\ retval' = retval /\ clauses' = clauses
       ELSE /\ Call(NodeAfterUpdate(Val(Top.node), 0 - Top.lit), "second",
                    Top.lit, update_node(Val(Top.node), 0 - Top.lit))
            /\ retval' = retval
    /\ UNCHANGED <<phase, solution, stack2, result>>

\* lines 53, 58, 64: the frame returns what its last call returned
RunDpll_Return ==
    /\ phase = "dpll" /\ stack # << >> /\ Top.pc \in {"tail", "second"}
    /\ stack' = Pop
    /\ UNCHANGED <<clauses, phase, retval, solution, stack2, result>>

----------------------------------------------------------------------------
\* class DPLL2

\* the value of assignment.get(v): Some(bool), or None for a missing key
DictGet(assignment, v) ==
    IF v \in DOMAIN assignment THEN Some(assignment[v]) ELSE None

\* Variant of Satisfied: the test of negative literals (line 130) is dropped.
Satisfied_PositiveOnly(clause, assignment) ==
    \E lit \in clause : lit > 0 /\ DictGet(assignment, abs(lit)) = Some(TRUE)

\* lines 128-132: some literal of the clause is true under the assignment
Satisfied(clause, assignment) ==
    \E lit \in clause :
        \/ lit > 0 /\ DictGet(assignment, abs(lit)) = Some(TRUE)
        \/ lit < 0 /\ DictGet(assignment, abs(lit)) = Some(FALSE)

\* Variant of simplify: the filter of lines 136-139 is left out, a clause
\* that is not satisfied keeps its assigned literals.
simplify_KeepAssigned(cls, assignment) ==
    LET Keep(clause) == ~Satisfied(clause, assignment)
    IN SelectSeq(cls, Keep)

\* run_dpll.simplify(clauses, assignment)
simplify(cls, assignment) ==
    LET Keep(clause) == ~Satisfied(clause, assignment)
        kept == SelectSeq(cls, Keep)
    IN [i \in 1..Len(kept) |->
          {lit \in kept[i] : abs(lit) \notin DOMAIN assignment}]

\* Variant of complete_assignment: a missing variable is filled with False.
complete_assignment_False(assignment) ==
    [v \in DOMAIN assignment \cup InstanceVars |->
       IF v \in DOMAIN assignment THEN assignment[v] ELSE FALSE]

\* DPLL2.complete_assignment(instance, assignment)
complete_assignment(assignment) ==
    [v \in DOMAIN assignment \cup InstanceVars |->
       IF v \in DOMAIN assignment THEN assignment[v] ELSE TRUE]

\* a call frame of DPLL2.run_dpll: instance.clauses and assignment as
\* passed, the local `clauses`, the locals `var` and `lit`, and where it
\* stands
Frame2(cls, a, pc, red, var, lit) ==
    [clauses |-> cls, assignment |-> a, pc |-> pc, reduced |-> red,
     var |-> var, lit |-> lit]

Top2 == stack2[Len(stack2)]
Pop2 == SubSeq(stack2, 1, Len(stack2) - 1)

\* the local `clauses` of the call that is entering (line 144)
Reduced == simplify(Top2.clauses, Top2.assignment)

\* positions of the unit clauses in a clause list
UnitPositions(cls) == {i \in 1..Len(cls) : Cardinality(cls[i]) = 1}

\* line 174
AllLiterals(cls) == UNION {cls[i] : i \in 1..Len(cls)}

\* Variant of PureLits2: the test of line 176 is dropped.
PureLits2_All(cls) == AllLiterals(cls)

\* the literals the loop of line 175 may select first
PureLits2(cls) == {lit \in AllLiterals(cls) : (0 - lit) \notin AllLiterals(cls)}

\* Frame j holds the same dict object as the innermost frame: every frame
\* from j up to the innermost one was called with its caller's `assignment`
\* (lines 171, 185), not with a copy (line 193).
SharesDict(j) == \A k \in j..(Len(stack2) - 1) : stack2[k].pc = "tail"

\* lines 164/178 then 171/185: assignment[var] = val mutates the dict in
\* place, in every frame that holds it, and the call passes the same dict on
TailCall2(var, val) ==
    LET a == Put(Top2.assignment, var, val)
        n == Len(stack2)
        lit == IF val THEN var ELSE 0 - var
    IN stack2' =
         Append([j \in 1..n |->
                   IF j = n
                   THEN Frame2(Top2.clauses, a, "tail", Reduced, var, lit)
                   ELSE IF SharesDict(j)
                        THEN [stack2[j] EXCEPT !.assignment = a]
                        ELSE stack2[j]],
                Frame2(Reduced, a, "enter", << >>, 0, 0))

\* Variant of BranchCall2: the two rounds of the loop of line 192 swapped.
BranchCall2_Swapped(pc, red, lit, val) ==
    stack2' =
      Append([stack2 EXCEPT ![Len(stack2)] =
                 Frame2(Top2.clauses, Top2.assignment, pc, red, abs(lit), lit)],
             Frame2(red, Put(Top2.assignment, abs(lit), ~val),
                    "enter", << >>, 0, 0))

\* lines 190-203: var = abs(lit), and the child is called with a copy of the
\* dict in which var has the value val
BranchCall2(pc, red, lit, val) ==
    stack2' =
      Append([stack2 EXCEPT ![Len(stack2)] =
                 Frame2(Top2.clauses, Top2.assignment, pc, red, abs(lit), lit)],
             Frame2(red, Put(Top2.assignment, abs(lit), val),
                    "enter", << >>, 0, 0))

Entering2 == phase = "dpll2" /\ stack2 # << >> /\ Top2.pc = "enter"

\* lines 147-148
Dpll2_Sat ==
    /\ Entering2
    /\ Reduced = << >>
    /\ result' = Some(complete_assignment(Top2.assignment))
    /\ stack2' = Pop2
    /\ UNCHANGED <<clauses, phase, stack, retval, solution>>

\* lines 151-152
Dpll2_EmptyClause ==
    /\ Entering2
    /\ Reduced # << >>
    /\ \E i \in 1..Len(Reduced) : Reduced[i] = {}
    /\ result' = None
    /\ stack2' = Pop2
    /\ UNCHANGED <<clauses, phase, stack, retval, solution>>

Searching2 ==
    /\ Entering2
    /\ Reduced # << >>
    /\ \A i \in 1..Len(Reduced) : Reduced[i] # {}

\* lines 155-171: the first unit clause of the list
Dpll2_Unit ==
    /\ Searching2
    /\ UnitPositions(Reduced) # {}
    /\ LET clause == Reduced[Min(UnitPositions(Reduced))]
           lit == CHOOSE l \in clause : TRUE
           var == abs(lit)
           val == lit > 0
       IN IF var \in DOMAIN Top2.assignment /\ Top2.assignment[var] # val
          THEN result' = None /\ stack2' = Pop2
          ELSE result' = result /\ TailCall2(var, val)
    /\ UNCHANGED <<clauses, phase, stack, retval, solution>>

\* lines 174-185
Dpll2_Pure ==
    /\ Searching2
    /\ UnitPositions(Reduced) = {}
    /\ \E lit \in PureLits2(Reduced) : TailCall2(abs(lit), lit > 0)
    /\ UNCHANGED <<clauses, phase, stack, retval, solution, result>>

\* lines 189-203, first round of the loop: val = True
Dpll2_Branch ==
    /\ Searching2
    /\ UnitPositions(Reduced) = {}
    /\ PureLits2(Reduced) = {}
    /\ \E lit \in Reduced[1] : BranchCall2("true", Reduced, lit, TRUE)
    /\ UNCHANGED <<clauses, phase, stack, retval, solution, result>>

\* lines 204-205: a child returned an assignment
Dpll2_BranchFound ==
    /\ phase = "dpll2" /\ stack2 # << >> /\ Top2.pc \in {"true", "false"}
    /\ result # None
    /\ stack2' = Pop2
    /\ UNCHANGED <<clauses, phase, stack, retval, solution, result>>

\* lines 192-203, second round of the loop: val = False
Dpll2_BranchFalse ==
    /\ phase = "dpll2" /\ stack2 # << >> /\ Top2.pc = "true"
    /\ result = None
    /\ BranchCall2("false", Top2.reduced, Top2.lit, FALSE)
    /\ UNCHANGED <<clauses, phase, stack, retval, solution, result>>

\* line 207: both children returned None
Dpll2_BranchFail ==
    /\ phase = "dpll2" /\ stack2 # << >> /\ Top2.pc = "false"
    /\ result = None
    /\ stack2' = Pop2
    /\ UNCHANGED <<clauses, phase, stack, retval, solution, result>>

\* lines 171, 185: the frame returns what its call returned
Dpll2_Return ==
    /\ phase = "dpll2" /\ stack2 # << >> /\ Top2.pc = "tail"
    /\ stack2' = Pop2
    /\ UNCHANGED <<clauses, phase, stack, retval, solution, result>>

----------------------------------------------------------------------------
\* The driver, main.py lines 28-32: dpll.run_dpll(dpll.root) has returned;
\* then DPLL2().run_dpll(instance) is called on the same instance.
Main_RunDPLL2 ==
    /\ phase = "dpll" /\ stack = << >>
    /\ phase' = "dpll2"
    /\ stack2' = <<Frame2(clauses, << >>, "enter", << >>, 0, 0)>>
    /\ UNCHANGED <<clauses, stack, retval, solution, result>>

Main_Done ==
    /\ phase = "dpll2" /\ stack2 = << >>
    /\ phase' = "done"
    /\ UNCHANGED <<clauses, stack, retval, solution, stack2, result>>

----------------------------------------------------------------------------
\* Inputs.  A clause holds no variable in both polarities (such a clause
\* does not occur in the input); it may be empty.  The formulas are every
\* sequence of at most MaxClauses clauses over the declared variables, and,
\* whatever the bounds, the formulas shaped like the scenarios of the
\* specification: every formula of three clauses over the variables 1 and 2
\* (scenario 2 is one of them) and the four clauses of scenario 3.

NonTautological(c) == \A l \in c : (0 - l) \notin c

ClauseSet == {c \in SUBSET Lits : NonTautological(c)}

Scenario2 == <<{1, 2}, {0 - 1, 2}, {0 - 2}>>
Scenario3 == <<{1, 2}, {0 - 1, 0 - 2}, {1, 0 - 2}, {0 - 1, 2}>>

ScenarioClauses == {c \in SUBSET {1, 2, 0 - 1, 0 - 2} : NonTautological(c)}

Formulas ==
    UNION {[1..n -> ClauseSet] : n \in 0..MaxClauses}
    \cup [1..Len(Scenario2) -> ScenarioClauses]
    \cup {Scenario3}

Init ==
    /\ clauses \in Formulas
    /\ phase = "dpll"
    /\ stack = <<Frame(Some(Root), "enter", 0)>>
    /\ retval = None
    /\ solution = None
    /\ stack2 = << >>
    /\ result = None

Next ==
    \/ RunDpll_NoneNode
    \/ RunDpll_Solved
    \/ RunDpll_Pure
    \/ RunDpll_Unit
    \/ RunDpll_Branch
    \/ RunDpll_Or
    \/ RunDpll_Return
    \/ Main_RunDPLL2
    \/ Dpll2_Sat
    \/ Dpll2_EmptyClause
    \/ Dpll2_Unit
    \/ Dpll2_Pure
    \/ Dpll2_Branch
    \/ Dpll2_BranchFound
    \/ Dpll2_BranchFalse
    \/ Dpll2_BranchFail
    \/ Dpll2_Return
    \/ Main_Done

Spec == Init /\ [][Next]_vars

----------------------------------------------------------------------------
\* Vocabulary of the properties

\* a well-formed formula: every clause is a non-empty, non-tautological set
\* of literals over the declared variables
WellFormed ==
    \A i \in 1..Len(clauses) :
        /\ clauses[i] # {}
        /\ clauses[i] \subseteq Lits
        /\ NonTautological(clauses[i])

HasEmptyInputClause == \E i \in 1..Len(clauses) : clauses[i] = {}

\* the clause has a literal whose variable is assigned with its polarity
ClauseTrue(clause, a) ==
    \E l \in clause : abs(l) \in DOMAIN a /\ a[abs(l)] = (l > 0)

\* every clause of the original formula is true under the assignment
SatisfiesFormula(a) == \A i \in 1..Len(clauses) : ClauseTrue(clauses[i], a)

\* one of the 2^n total assignments satisfies all clauses
Satisfiable == \E a \in [InstanceVars -> BOOLEAN] : SatisfiesFormula(a)

\* the declared variables that occur in some clause
OccurringVars == {abs(l) : l \in UNION {clauses[i] : i \in 1..Len(clauses)}}

\* DPLL.run_dpll(root) has finished
DpllFinished == stack = << >>

\* the nodes of the calls in progress
VisitedNodes == {Val(stack[i].node) : i \in {j \in 1..Len(stack) : stack[j].node # None}}

\* no call of update_node the engine can make raises KeyError
NoKeyError == \A n \in VisitedNodes : \A l \in Lits : UpdateNodeSafe(n, l)

----------------------------------------------------------------------------
\* C1. Soundness of the indexed engine: on a well-formed formula, when
\* run_dpll(root) has finished with a solution, every clause of the formula
\* has a literal whose variable the solution assigns with that polarity.
C1_Soundness ==
    (WellFormed /\ DpllFinished /\ solution # None)
        => SatisfiesFormula(Val(solution))

\* a finished run on a well-formed formula of two clauses that reported a
\* solution
C1_Witness ==
    /\ WellFormed /\ DpllFinished /\ phase = "dpll"
    /\ solution # None
    /\ Len(clauses) >= 2

\* C2. Completeness of the indexed engine: on a well-formed formula, when
\* run_dpll(root) has finished without a solution, none of the 2^n total
\* assignments of the declared variables satisfies all clauses.
C2_Completeness ==
    (WellFormed /\ DpllFinished /\ solution = None) => ~Satisfiable

\* a finished run on a well-formed formula that reported no solution
C2_Witness ==
    /\ WellFormed /\ DpllFinished /\ phase = "dpll"
    /\ solution = None

\* C3. Equivalence of the two engines: on a well-formed formula the indexed
\* engine reports a solution exactly when the flat engine returns one.
C3_Equivalence ==
    (WellFormed /\ phase = "done") => ((solution # None) <=> (result # None))

\* both engines have run on a well-formed formula and both found it
\* unsatisfiable
C3_Witness ==
    /\ WellFormed /\ phase = "done"
    /\ solution = None /\ result = None
    /\ Len(clauses) >= 2

\* C4. Flat engine contract: on every formula, empty clauses included,
\* DPLL2.run_dpll(instance) returns None exactly when the formula is
\* unsatisfiable, and otherwise an assignment that makes every clause true.
C4_FlatContract ==
    phase = "done" =>
        /\ (result = None) <=> ~Satisfiable
        /\ result # None => SatisfiesFormula(Val(result))

\* the flat engine has returned None on a formula that holds an empty clause
\* next to another clause
C4_Witness ==
    /\ phase = "done"
    /\ HasEmptyInputClause /\ Len(clauses) >= 2
    /\ result = None

\* C5 as stated. Complete output: when run_dpll(root) has finished with a
\* solution, the solution has an entry for every declared variable,
\* variables that occur in no clause included.
C5_EveryDeclaredVariable ==
    (DpllFinished /\ solution # None)
        => InstanceVars \subseteq DOMAIN Val(solution)

\* C5 as amended. When run_dpll(root) has finished with a solution, the
\* solution has an entry for exactly the declared variables that occur in
\* some clause; a variable that occurs in no clause has no entry.
C5_OccurringVariables ==
    (DpllFinished /\ solution # None)
        => DOMAIN Val(solution) = OccurringVars

\* a finished run with a solution on a formula that uses some declared
\* variables and leaves another one out of every clause
C5_Witness ==
    /\ DpllFinished /\ phase = "dpll"
    /\ solution # None
    /\ OccurringVars # {}
    /\ OccurringVars # InstanceVars

\* C6 as stated. Scenario 2: on the clauses {1, 2}, {-1, 2}, {-2} the engine
\* reports satisfiable with the assignment {1: true, 2: false}.
C6_Scenario2Satisfiable ==
    (clauses = Scenario2 /\ DpllFinished)
        => solution = Some([v \in {1, 2} |-> v = 1])

\* C6 as amended. Scenario 2: on the clauses {1, 2}, {-1, 2}, {-2} the
\* engine reports unsatisfiable: solution is None when run_dpll(root) has
\* finished.
C6_Scenario2Unsatisfiable ==
    (clauses = Scenario2 /\ DpllFinished) => solution = None

\* run_dpll(root) has finished on scenario 2
C6_Witness == clauses = Scenario2 /\ DpllFinished /\ phase = "dpll"

\* C7. Empty clause at the root: if the formula holds a clause with zero
\* literals, solution is None when run_dpll(root) has finished, whatever the
\* other clauses are.
C7_EmptyClauseUnsatisfiable ==
    (HasEmptyInputClause /\ DpllFinished) => solution = None

\* the step in which a branching frame calls run_dpll on its literal-false
\* child
FalseChildCalled ==
    /\ phase = "dpll" /\ stack # << >> /\ Top.pc = "first"
    /\ Len(stack') = Len(stack) + 1

\* C8. Branch ordering: the literal-false child of a branching node is
\* explored only if no solution has been found, and the solution found by
\* the first successful leaf is the one reported (it is never replaced).
C8_FirstSuccessWins ==
    [][/\ FalseChildCalled => solution = None
       /\ solution # None => solution' = solution]_vars

\* the variables assigned in the node of frame i
AssignedAt(i) == DOMAIN Val(stack[i].node).sat_vars_to_assignment

\* every call in progress on a non-None node has as many assigned variables
\* as its depth (the root call has depth 0), exactly one more than its
\* caller, and the depth never exceeds the number of declared variables
DepthIsAssigned ==
    /\ Len(stack) <= NumVars + 1
    /\ \A i \in 1..Len(stack) :
         stack[i].node # None =>
            /\ Cardinality(AssignedAt(i)) = i - 1
            /\ AssignedAt(i) \subseteq InstanceVars
            /\ i > 1 => /\ stack[i - 1].node # None
                        /\ AssignedAt(i - 1) \subseteq AssignedAt(i)

\* an upper bound of the steps a call whose frame is at position i of the
\* stack takes from its entry to its return, its two child calls included
RECURSIVE CallCost(_)
CallCost(i) == IF i > NumVars + 1 THEN 0 ELSE 3 + 2 * CallCost(i + 1)

\* an upper bound of the steps frame i has left to take, calls it has still
\* to make included: a frame that enters has its whole call ahead, a frame
\* past its first branch has the `or`, the second child and its return
\* ahead, any other frame has only its return ahead
FrameCost(i) ==
    IF stack[i].pc = "enter" THEN CallCost(i)
    ELSE IF stack[i].pc = "first" THEN 2 + CallCost(i + 1)
    ELSE 1

RECURSIVE SumCost(_)
SumCost(i) == IF i = 0 THEN 0 ELSE FrameCost(i) + SumCost(i - 1)

\* the variant of the search: an upper bound of the steps left
StepsLeft == SumCost(Len(stack))

\* C9. Termination: the indexed search terminates on every formula (every
\* step of run_dpll lowers the bound StepsLeft of the steps left), and the
\* recursion depth of a call on a non-None node equals the number of
\* variables its node assigns, one more than its caller's, and is at most
\* the number of declared variables.
C9_Termination ==
    [][(phase = "dpll" /\ stack # << >>) =>
          /\ DepthIsAssigned /\ DepthIsAssigned'
          /\ StepsLeft' < StepsLeft]_vars

\* a call at depth 2 on a node, which assigns two variables
C9_Witness ==
    /\ phase = "dpll" /\ Len(stack) = 3
    /\ Top.node # None /\ Top.pc = "enter"

\* C10. Solved detection: at every node the engine visits on a well-formed
\* formula, id_to_clause is empty if and only if var_to_clause_ids is empty.
C10_SolvedDetection ==
    WellFormed =>
        \A n \in VisitedNodes :
            (DOMAIN n.id_to_clause = {}) <=> (DOMAIN n.var_to_clause_ids = {})

\* the frames of the calls that made a case split (line 64)
BranchingFrames == {i \in 1..Len(stack) : stack[i].pc \in {"first", "second"}}

\* C11. Branching only when no inference applies: on a well-formed formula,
\* a node at which the engine makes a case split has no pure literal and no
\* unit clause; in particular a node whose unit clause cannot be asserted
\* (update_node returns None) is not branched on.
C11_BranchOnlyWithoutInference ==
    WellFormed =>
        \A i \in BranchingFrames :
            /\ PureLits(Val(stack[i].node)) = {}
            /\ UnitIds(Val(stack[i].node)) = {}

\* the two directions of the index: literal l is in the active clause c, and
\* c is listed under l
InClause(n, c, l) == c \in DOMAIN n.id_to_clause /\ l \in n.id_to_clause[c]
Listed(n, c, l) == l \in DOMAIN n.var_to_clause_ids /\ c \in n.var_to_clause_ids[l]

\* C12. Index consistency: on a well-formed formula, in the root node and in
\* every node a successful update_node returned to the engine, literal l is
\* in id_to_clause[c] if and only if c is in var_to_clause_ids[l].
C12_IndexConsistency ==
    WellFormed =>
        \A n \in VisitedNodes : \A c \in ClauseIds : \A l \in Lits :
            InClause(n, c, l) <=> Listed(n, c, l)

\* a node returned by update_node that still has an active clause, after a
\* clause was deleted from it
C12_Witness ==
    /\ WellFormed /\ phase = "dpll" /\ Len(stack) >= 2
    /\ Top.node # None
    /\ DOMAIN Val(Top.node).id_to_clause # {}
    /\ DOMAIN Val(Top.node).id_to_clause # ClauseIds

\* the child call a branching frame has open was built by update_node from
\* the node the frame holds: with branch_var for the first child, with its
\* negation for the second
ChildOf(i) ==
    update_node(Val(stack[i].node),
                IF stack[i].pc = "first" THEN stack[i].lit ELSE 0 - stack[i].lit)

EngineLits(node) ==
    PureLits(node)
    \cup (IF UnitIds(node) = {} THEN {}
          ELSE node.id_to_clause[Min(UnitIds(node))])
    \cup heuristic(node) \cup {0 - b : b \in heuristic(node)}

\* C14. Monotonic assignment: in every call update_node(node, lit) the engine
\* makes at the node a call of run_dpll enters, the variable of lit is unassigned in node, and when the call
\* succeeds the assignment of the node returned is the one of node with
\* exactly one more entry, abs(lit) -> (lit > 0), all earlier values kept.
C14_MonotonicAssignment ==
    Entering /\ Top.node # None =>
        \A lit \in EngineLits(Val(Top.node)) :
            LET before == Val(Top.node).sat_vars_to_assignment
                next_node == update_node(Val(Top.node), lit)
            IN /\ abs(lit) \notin DOMAIN before
               /\ next_node # None =>
                    LET after == Val(next_node).sat_vars_to_assignment
                    IN /\ DOMAIN after = DOMAIN before \cup {abs(lit)}
                       /\ after[abs(lit)] = (lit > 0)
                       /\ \A v \in DOMAIN before : after[v] = before[v]

\* a node that already has an assigned variable and at which the engine
\* asserts a negative literal with success
C14_Witness ==
    /\ phase = "dpll" /\ Len(stack) >= 2
    /\ Top.pc = "enter" /\ Top.node # None
    /\ LET parent == Val(stack[Len(stack) - 1].node)
       IN /\ DOMAIN parent.sat_vars_to_assignment # {}
          /\ \E lit \in EngineLits(parent) :
                lit < 0 /\ update_node(parent, lit) = Top.node

\* C15. Pure-literal safety: at every node run_dpll enters, asserting a
\* literal find_pure_symbol can select never yields None, and no node on
\* which the engine made a case split has a pure literal: a node with a pure
\* literal is resolved by inference.
C15_PureLiteralSafety ==
    /\ Entering /\ Top.node # None =>
          \A lit \in PureLits(Val(Top.node)) :
              update_node(Val(Top.node), lit) # None
    /\ \A i \in BranchingFrames : PureLits(Val(stack[i].node)) = {}

\* the call made for a pure literal, from a node that also has a literal
\* that is not pure
C15_Witness ==
    /\ phase = "dpll" /\ Len(stack) >= 2
    /\ stack[Len(stack) - 1].pc = "tail"
    /\ LET parent == Val(stack[Len(stack) - 1].node)
       IN /\ PureLits(parent) # {}
          /\ \E c \in DOMAIN parent.id_to_clause :
                ~(parent.id_to_clause[c] \subseteq PureLits(parent))
          /\ Top.node \in {update_node(parent, lit) : lit \in PureLits(parent)}

\* the original formula under an assignment: the clauses with a true literal
\* are dropped, the others lose the literals of assigned variables, and the
\* order of the clauses is kept
ApplyAssignment(a) ==
    LET Open(clause) == ~ClauseTrue(clause, a)
        open == SelectSeq(clauses, Open)
    IN [i \in 1..Len(open) |-> {l \in open[i] : abs(l) \notin DOMAIN a}]

\* C16. Flat-form invariant: at every call of DPLL2.run_dpll, the clause
\* list simplify computes at line 144 from the clauses and the assignment
\* passed is the original formula under that assignment.
C16_FlatForm ==
    Entering2 => Reduced = ApplyAssignment(Top2.assignment)

\* a call below the literal-false child of a case split, entered with a list
\* of clauses that is no longer the original one and that its own assignment
\* reduces further
C16_Witness ==
    /\ Entering2
    /\ \E j \in 1..(Len(stack2) - 1) : stack2[j].pc = "false"
    /\ Top2.clauses # clauses
    /\ Reduced # Top2.clauses
    /\ Reduced # << >>

\* the frames of DPLL2.run_dpll that made a case split and whose child call
\* is open
BranchingFrames2 ==
    {j \in 1..(Len(stack2) - 1) : stack2[j].pc \in {"true", "false"}}

\* C17. Flat branch polarity, as claimed: the literal taken from the first
\* remaining clause is true in the child explored first and false in the
\* child explored second, whatever its sign.
C17_LiteralTrueFirst ==
    \A j \in BranchingFrames2 :
        LET lit == stack2[j].lit
            child == stack2[j + 1].assignment
        IN IF stack2[j].pc = "true"
           THEN child[abs(lit)] = (lit > 0)
           ELSE child[abs(lit)] = (lit < 0)

\* C17, amended. The flat engine takes a literal of the first remaining
\* clause and branches on its variable: the child explored first has the
\* variable true, the child explored second has it false, and the second
\* child is called only by a frame whose first child returned None.
C17_VariableTrueFirst ==
    [][/\ \A j \in 1..(Len(stack2') - 1) :
             LET f == stack2'[j]
                 child == stack2'[j + 1].assignment
             IN /\ f.pc \in {"true", "false"} => f.lit \in f.reduced[1]
                /\ f.pc = "true" => child[abs(f.lit)] = TRUE
                /\ f.pc = "false" => child[abs(f.lit)] = FALSE
       /\ \A j \in 1..Len(stack2') :
             stack2'[j].pc = "false" =>
                /\ j <= Len(stack2)
                /\ stack2[j].pc \in {"true", "false"}
                /\ stack2[j].pc = "true" => j = Len(stack2) /\ result = None]_vars

\* the second child of a case split on a negative literal is open
C17_Witness ==
    \E j \in BranchingFrames2 : stack2[j].pc = "false" /\ stack2[j].lit < 0

\* C18. Default completion: a result of the flat engine that is not None has
\* an entry for exactly the declared variables; when a call finds its clause
\* list empty, the result keeps the value of every variable of its
\* assignment and gives True to the others; the result is handed up
\* unchanged; and on a formula without clauses the result is all-True.
C18_DefaultCompletion ==
    [][/\ result' # None => DOMAIN Val(result') = InstanceVars
       /\ Entering2 /\ Reduced = << >> =>
             /\ result' # None
             /\ \A v \in InstanceVars :
                   Val(result')[v] = IF v \in DOMAIN Top2.assignment
                                     THEN Top2.assignment[v] ELSE TRUE
       /\ result # None => result' = result
       /\ clauses = << >> /\ phase' = "done" =>
             result' = Some([v \in InstanceVars |-> TRUE])]_vars

\* the flat engine returned an assignment for a formula in which a declared
\* variable does not occur and another one was assigned False
C18_Witness ==
    /\ phase = "done" /\ result # None
    /\ InstanceVars \ OccurringVars # {}
    /\ \E v \in InstanceVars : ~Val(result)[v]

\* C19. Stored solutions: once self.solution is not None no step sets it back
\* to None, and on a well-formed formula every value a step stores in
\* self.solution makes every clause of the formula true.
C19_StoredSolution ==
    [][/\ solution # None => solution' # None
       /\ WellFormed /\ solution' # None =>
             SatisfiesFormula(Val(solution'))]_vars

\* a leaf is about to overwrite the solution an earlier leaf stored with a
\* different assignment
C19_Witness ==
    /\ WellFormed /\ Entering /\ Top.node # None
    /\ DOMAIN Val(Top.node).var_to_clause_ids = {}
    /\ solution # None
    /\ solution # Some(Val(Top.node).sat_vars_to_assignment)

====
